---------------------------- MODULE Spec2Model ----------------------------
(***************************************************************************)
(* Model of the Astarte dashboard API client (src/astarte-client/client.ts) *)
(* : the realtime channel manager (socket, rooms, volatile triggers), the   *)
(* connection-event listener registry, and the HTTP methods for            *)
(* credentials, blocks, groups, device listing and device data trees.      *)
(*                                                                         *)
(* JavaScript runs one task at a time: a client method runs to its first   *)
(* pending promise without interruption, and the promise callbacks chained *)
(* on one network event run before the next network event is handled.     *)
(* Each action below is therefore one such task: a method call, or one     *)
(* network event together with every callback it resumes.                  *)
(***************************************************************************)
EXTENDS Naturals, Sequences, FiniteSets, TLC

\* ------------------------------------------------------------------ bounds
\* Calls issued on the client in the channel-manager specification.
MaxCalls == 3
\* Calls issued on the client in the listener specification.
MaxListenerCalls == 2
\* Calls issued plus callbacks registered at one time, in the listener
\* specification.
MaxListenerOps == 4

\* Calls issued on the client, HTTP and realtime together, in the credentials
\* specification.
MaxCredentialCalls == 3
\* joinRoom calls among them.
MaxCredentialJoins == 1
\* Calls issued on the client in the specifications of the HTTP methods.
MaxHttpCalls == 2
\* Calls issued on the client in the room-events specification.
MaxEventCalls == 3
\* Calls issued on the client in the groups specification.
MaxGroupCalls == 1
\* Blocks stored in the Flow API by its other users.
MaxServerBlocks == 2
MaxSocketCalls == 2
MaxSocketListeners == 2
MaxReuseCalls == 2
MaxReuseListeners == 1
MaxSubmits == 2

Rooms == {"r1", "r2"}
ListenerRooms == {"r1"}
Triggers == {"t1"}
Handlers == {"h1"}
Callbacks == {"cb1", "cb2", "cb3"}
EventNames == {"socketError", "socketClose"}
Replies == {"ok", "error"}

\* What setCredentials is called with; << >> is `null`.
CredentialParams ==
    {<< >>,
     [realm |-> <<"realmA">>, token |-> <<"tokenA">>],
     [realm |-> <<"realmB">>, token |-> <<"tokenB">>]}
\* The credentials of the realm logged in to next.
NextCredentialParams == {[realm |-> <<"realmB">>, token |-> <<"tokenB">>]}
\* What is typed and selected in the New Block page. A name is made of runs
\* of the characters [a-zA-Z0-9-_]: NameWords start with a letter.
NameWords == {"custom1", "custom2", "filter", "to_json", "new"}
NameRuns == NameWords \cup {"1", "-", "_"}
BlockInputs ==
    [name |-> {<< >>, <<"custom1">>, <<"filter">>, <<"new">>, <<"1", "custom1">>,
               <<"custom1", " ">>},
     source |-> {<< >>, <<"code">>},
     type |-> {"producer", "consumer", "producer_consumer"},
     schema |-> {<< >>, <<"{", "}">>, <<" ", "{", "}", " ">>, <<"{">>}]
CustomBlocks == {[name |-> <<"custom1">>, definition |-> "custom"]}
\* What registerBlock is called with: a new name, and the name of a native block.
NewBlocks == CustomBlocks \cup {[name |-> <<"filter">>, definition |-> "custom"]}
\* What the other users of the Flow API store.
OtherBlocks ==
    {[name |-> <<"filter">>, definition |-> "other"],
     [name |-> <<"custom2">>, definition |-> "other"]}

\* Group names, character by character: empty, plain, with the reserved
\* characters % / ? and quotes, looking like an escape, and the dot names.
GroupNames ==
    {<< >>, <<"g">>, <<"%">>, <<"a", "/", "b">>, <<"%", "2", "F">>, <<"'", "\"">>,
     <<"a", "?">>, <<".">>, <<".", ".">>, <<".", "a">>}
DeviceIds == {<< >>, <<"device1">>}

\* Device DTOs of the AppEngine API: the interfaces a device declares, each
\* with its major version.
DeviceDTOs ==
    {[id |-> <<"device1">>, introspection |-> [i \in {<<"iface1">>} |-> [major |-> 1]]],
     [id |-> <<"device1">>, introspection |-> << >>]}
\* Interface definitions of the Realm Management API.
InterfaceDTOs == {[interface_name |-> <<"iface1">>, version_major |-> 1]}
\* What getDeviceDataTree is called with: the name of an interface the device
\* may declare, the name of one it does not, an interface object.
DataTreeParams ==
    {[deviceId |-> <<"device1">>, interfaceName |-> <<"iface1">>],
     [deviceId |-> <<"device1">>, interfaceName |-> <<"iface2">>],
     [deviceId |-> <<"device1">>, interface |-> [name |-> <<"iface1">>, major |-> 1]]}
\* What getDevices is called with; limit 0 and from '' stand for none given.
DevicesParams == [details : BOOLEAN, limit : {0, 10}, from : {<< >>, <<"abc">>}]
\* Next links of a device list: a query alone; a path and a query that
\* starts with from_token; a path and a query with from_token in second
\* place; a query without from_token.
NextLinks ==
    {<<"?", "from_token", "=", "abc">>,
     <<"/v1/realmA/devices", "?", "from_token", "=", "abc", "&", "limit", "=", "10">>,
     <<"/v1/realmA/devices", "?", "details", "=", "true", "&", "from_token", "=", "abc">>,
     <<"/v1/realmA/devices", "?", "limit", "=", "10">>}
\* Bodies of successful device list responses: with a next link, with links
\* but no next link, without links.
DeviceListBodies ==
    {[data |-> <<[id |-> <<"device1">>, introspection |-> << >>]>>,
      links |-> [self |-> <<"/v1/realmA/devices">>, next |-> l]] : l \in NextLinks}
    \cup {[data |-> << >>, links |-> [self |-> <<"/v1/realmA/devices">>]],
          [data |-> << >>]}

EventHandlers == {"h1", "h2"}
\* Payloads of inbound 'new_event' messages: two device events, a message
\* of an unknown shape, and one that is no event at all.
JsonEvents ==
    {[device_id |-> "device1", event |-> [type |-> "device_connected"]],
     [device_id |-> "device1", event |-> [type |-> "device_disconnected"]],
     [device_id |-> "device1", event |-> [type |-> "unknown"]],
     [error |-> "malformed"]}

\* `null` of this.phoenixSocket and `undefined` of joinedChannels[roomName].
NoSocket == 0
NoChannel == 0

VARIABLES
    phoenixSocket,   \* this.phoenixSocket: NoSocket or the id of a socket
    joinedChannels,  \* this.joinedChannels: room name -> channel id or NoChannel
    listeners,       \* this.listeners: event name -> sequence of callbacks
    sockets,         \* every Socket constructed so far, by id: its state and
                     \* the realm and token it was opened with
    channels,        \* every Channel constructed so far, by id
    calls,           \* every promise returned by a channel-manager method
    lastOp,          \* the last listener operation or socket event, with what it invoked
    config,          \* this.config.realm and this.token
    requests,        \* every HTTP request issued so far, in order
    httpCalls,       \* every promise returned by an HTTP method
    serverBlocks,    \* the blocks stored by the Flow API, as it would list them
    page             \* the New Block page: its state hooks, the alert it shows
                     \* and what it pushed to the history

\* What the channel manager leaves alone.
httpVars == <<config, requests, httpCalls, serverBlocks, page>>

vars == <<phoenixSocket, joinedChannels, listeners, sockets, channels, calls, lastOp,
          config, requests, httpCalls, serverBlocks, page>>

NoOp == [name |-> "none"]

\* ------------------------------------------------------------------ helpers
Message(event, payload) == [event |-> event, payload |-> payload]

\* phoenixSocket.channel(`rooms:${this.config.realm}:${roomName}`, {})
\* followed by channel.join()
NewChannel(roomName, sock) ==
    [room |-> roomName, sock |-> sock,
     topic |-> <<"rooms", config.realm, roomName>>,
     pushed |-> <<Message("phx_join", "")>>, bindings |-> <<>>]

\* The promise a method returns. reply: the acknowledgment its handshake or
\* push received; overlaps: the joinRoom calls for the same room that were
\* still pending when this one was issued.
NewCall(op, roomName, payload) ==
    [op |-> op, room |-> roomName, payload |-> payload,
     status |-> "pending", value |-> NoChannel, error |-> "",
     awaiting |-> "none", reply |-> "none", sock |-> NoSocket, chan |-> NoChannel,
     overlaps |-> {c \in DOMAIN calls :
                      /\ calls[c].op = "joinRoom"
                      /\ calls[c].room = roomName
                      /\ calls[c].status = "pending"}]

Resolve(call, value) ==
    [call EXCEPT !.status = "resolved", !.value = value, !.awaiting = "none"]

Reject(call, error) ==
    [call EXCEPT !.status = "rejected", !.error = error, !.awaiting = "none"]

\* Store the promise `id`: a new one is appended, a known one is updated.
Put(id, call) ==
    IF id > Len(calls) THEN Append(calls, call) ELSE [calls EXCEPT ![id] = call]

Push(ch, msg) == [channels EXCEPT ![ch].pushed = Append(@, msg)]

\* ------------------------------------------------------------- joinRoom
\* A joinRoom that never looks at the cached handle.
JoinRoomWithSocket_NoCache(id, call, sock) ==
    /\ channels' = Append(channels, NewChannel(call.room, sock))
    /\ calls' = Put(id, [call EXCEPT !.awaiting = "join",
                                     !.chan = Len(channels) + 1])

\* joinRoom once this.phoenixSocket is set.
JoinRoomWithSocket(id, call, sock) ==
    IF joinedChannels[call.room] # NoChannel
    THEN /\ calls' = Put(id, Resolve(call, joinedChannels[call.room]))
         /\ UNCHANGED channels
    ELSE /\ channels' = Append(channels, NewChannel(call.room, sock))
         /\ calls' = Put(id, [call EXCEPT !.awaiting = "join",
                                          !.chan = Len(channels) + 1])

\* openNewSocketConnection({ socketUrl, realm, token }, onError, onClose)
NewSocket ==
    [state |-> "connecting", realm |-> config.realm, token |-> config.token]

\* openSocketConnection with no socket stored: a new Socket is constructed
\* and connected; the call waits for it to open.
OpenSocketConnection(id, call) ==
    /\ sockets' = Append(sockets, NewSocket)
    /\ calls' = Put(id, [call EXCEPT !.awaiting = "socket",
                                     !.sock = Len(sockets) + 1])
    /\ UNCHANGED channels

JoinRoom(roomName) ==
    LET id == Len(calls) + 1
        call == NewCall("joinRoom", roomName, "")
    IN  /\ IF phoenixSocket = NoSocket
           THEN OpenSocketConnection(id, call)
           ELSE JoinRoomWithSocket(id, call, phoenixSocket) /\ UNCHANGED sockets
        /\ lastOp' = NoOp
        /\ UNCHANGED <<phoenixSocket, joinedChannels, listeners>>
        /\ UNCHANGED httpVars

\* The socket's onOpen: the socket is stored and the waiting joinRoom is
\* re-entered.
SocketOpened(s) ==
    /\ s \in DOMAIN sockets
    /\ sockets[s].state = "connecting"
    /\ sockets' = [sockets EXCEPT ![s].state = "open"]
    /\ phoenixSocket' = s
    /\ \E id \in DOMAIN calls :
          /\ calls[id].awaiting = "socket"
          /\ calls[id].sock = s
          /\ JoinRoomWithSocket(id, calls[id], s)
    /\ lastOp' = NoOp
    /\ UNCHANGED <<joinedChannels, listeners>>
    /\ UNCHANGED httpVars

\* The reply to the join handshake of call `id`.
JoinReply(id, reply) ==
    /\ id \in DOMAIN calls
    /\ calls[id].awaiting = "join"
    /\ LET call == [calls[id] EXCEPT !.reply = reply]
       IN  IF reply = "ok"
           THEN /\ joinedChannels' = [joinedChannels EXCEPT ![call.room] = call.chan]
                /\ calls' = [calls EXCEPT ![id] = Resolve(call, call.chan)]
           ELSE \* joinChannel rejects, and nothing handles the rejection
                /\ joinedChannels' = joinedChannels
                /\ calls' = [calls EXCEPT ![id] = [call EXCEPT !.awaiting = "never"]]
    /\ lastOp' = NoOp
    /\ UNCHANGED <<phoenixSocket, listeners, sockets, channels>>
    /\ UNCHANGED httpVars

\* ------------------------------------------------------------ leaveRoom
\* A leaveRoom without its precondition check: leaveChannel(undefined) throws.
LeaveRoom_Unchecked(roomName) ==
    LET call == NewCall("leaveRoom", roomName, "")
        channel == joinedChannels[roomName]
    IN  /\ IF channel = NoChannel
           THEN /\ calls' = Append(calls, Reject(call, "TypeError"))
                /\ UNCHANGED channels
           ELSE /\ channels' = Push(channel, Message("phx_leave", ""))
                /\ calls' = Append(calls, [call EXCEPT !.awaiting = "leave",
                                                       !.chan = channel])
        /\ lastOp' = NoOp
        /\ UNCHANGED <<phoenixSocket, joinedChannels, listeners, sockets>>
        /\ UNCHANGED httpVars

LeaveRoom(roomName) ==
    LET call == NewCall("leaveRoom", roomName, "")
        channel == joinedChannels[roomName]
    IN  /\ IF channel = NoChannel
           THEN /\ calls' = Append(calls, Reject(call, "Can't leave a room without joining it first"))
                /\ UNCHANGED channels
           ELSE /\ channels' = Push(channel, Message("phx_leave", ""))
                /\ calls' = Append(calls, [call EXCEPT !.awaiting = "leave",
                                                       !.chan = channel])
        /\ lastOp' = NoOp
        /\ UNCHANGED <<phoenixSocket, joinedChannels, listeners, sockets>>
        /\ UNCHANGED httpVars

\* A leaveRoom that forgets the room whatever the reply.
LeaveReply_AlwaysDelete(id, reply) ==
    /\ id \in DOMAIN calls
    /\ calls[id].awaiting = "leave"
    /\ LET call == [calls[id] EXCEPT !.reply = reply]
       IN  /\ joinedChannels' = [joinedChannels EXCEPT ![call.room] = NoChannel]
           /\ calls' = [calls EXCEPT ![id] = IF reply = "ok" THEN Resolve(call, NoChannel)
                                                              ELSE Reject(call, "reply")]
    /\ lastOp' = NoOp
    /\ UNCHANGED <<phoenixSocket, listeners, sockets, channels>>
    /\ UNCHANGED httpVars

\* The reply to the leave handshake of call `id`.
LeaveReply(id, reply) ==
    /\ id \in DOMAIN calls
    /\ calls[id].awaiting = "leave"
    /\ LET call == [calls[id] EXCEPT !.reply = reply]
       IN  IF reply = "ok"
           THEN /\ joinedChannels' = [joinedChannels EXCEPT ![call.room] = NoChannel]
                /\ calls' = [calls EXCEPT ![id] = Resolve(call, NoChannel)]
           ELSE /\ joinedChannels' = joinedChannels
                /\ calls' = [calls EXCEPT ![id] = Reject(call, "reply")]
    /\ lastOp' = NoOp
    /\ UNCHANGED <<phoenixSocket, listeners, sockets, channels>>
    /\ UNCHANGED httpVars

\* ---------------------------------------------- registerVolatileTrigger
RegisterVolatileTrigger(roomName, triggerPayload) ==
    LET call == NewCall("registerVolatileTrigger", roomName, triggerPayload)
        channel == joinedChannels[roomName]
    IN  /\ IF channel = NoChannel
           THEN /\ calls' = Append(calls, Reject(call, "Room not joined, couldn't register trigger"))
                /\ UNCHANGED channels
           ELSE /\ channels' = Push(channel, Message("watch", triggerPayload))
                /\ calls' = Append(calls, [call EXCEPT !.awaiting = "watch",
                                                       !.chan = channel])
        /\ lastOp' = NoOp
        /\ UNCHANGED <<phoenixSocket, joinedChannels, listeners, sockets>>
        /\ UNCHANGED httpVars

\* A registerTrigger that resolves on any reply.
WatchReply_AnyReply(id, reply) ==
    /\ id \in DOMAIN calls
    /\ calls[id].awaiting = "watch"
    /\ calls' = [calls EXCEPT ![id] = Resolve([calls[id] EXCEPT !.reply = reply], NoChannel)]
    /\ lastOp' = NoOp
    /\ UNCHANGED <<phoenixSocket, joinedChannels, listeners, sockets, channels>>
    /\ UNCHANGED httpVars

\* The reply to the 'watch' push of call `id`.
WatchReply(id, reply) ==
    /\ id \in DOMAIN calls
    /\ calls[id].awaiting = "watch"
    /\ LET call == [calls[id] EXCEPT !.reply = reply]
       IN  calls' = [calls EXCEPT ![id] = IF reply = "ok" THEN Resolve(call, NoChannel)
                                                          ELSE Reject(call, "reply")]
    /\ lastOp' = NoOp
    /\ UNCHANGED <<phoenixSocket, joinedChannels, listeners, sockets, channels>>
    /\ UNCHANGED httpVars

\* ------------------------------------------------------ listenForEvents
ListenForEvents(roomName, eventHandler) ==
    LET call == NewCall("listenForEvents", roomName, eventHandler)
        channel == joinedChannels[roomName]
    IN  /\ IF channel = NoChannel
           THEN /\ calls' = Append(calls, Reject(call, "Can't listen for room events before joining it first"))
                /\ UNCHANGED channels
           ELSE /\ channels' = [channels EXCEPT ![channel].bindings = Append(@, eventHandler)]
                /\ calls' = Append(calls, Resolve([call EXCEPT !.chan = channel], NoChannel))
        /\ lastOp' = NoOp
        /\ UNCHANGED <<phoenixSocket, joinedChannels, listeners, sockets>>
        /\ UNCHANGED httpVars

\* ------------------------------------------------------ listener registry
\* this.listeners[eventName], `undefined` read as no listener.
ListenersOf(eventName) ==
    IF eventName \in DOMAIN listeners THEN listeners[eventName] ELSE << >>

AddListener(eventName, callback) ==
    /\ listeners' = [e \in DOMAIN listeners \cup {eventName} |->
                        IF e = eventName THEN Append(ListenersOf(e), callback)
                                         ELSE listeners[e]]
    /\ lastOp' = [name |-> "addListener", eventName |-> eventName, callback |-> callback]
    /\ UNCHANGED <<phoenixSocket, joinedChannels, sockets, channels, calls>>
    /\ UNCHANGED httpVars

\* A removal that drops only the first registration of the callback.
Filter_FirstOnly(previousListeners, callback) ==
    LET hits == {i \in DOMAIN previousListeners : previousListeners[i] = callback}
    IN  IF hits = {} THEN previousListeners
        ELSE LET first == CHOOSE i \in hits : \A j \in hits : i <= j
             IN  SubSeq(previousListeners, 1, first - 1)
                    \o SubSeq(previousListeners, first + 1, Len(previousListeners))

\* previousListeners.filter((listener) => listener !== callback)
Filter(previousListeners, callback) ==
    SelectSeq(previousListeners, LAMBDA listener : listener # callback)

RemoveListener(eventName, callback) ==
    /\ listeners' = IF eventName \in DOMAIN listeners
                    THEN [listeners EXCEPT ![eventName] = Filter(@, callback)]
                    ELSE listeners
    /\ lastOp' = [name |-> "removeListener", eventName |-> eventName, callback |-> callback,
                  before |-> ListenersOf(eventName)]
    /\ UNCHANGED <<phoenixSocket, joinedChannels, sockets, channels, calls>>
    /\ UNCHANGED httpVars

\* A dispatch that walks the listeners from the last to the first.
Dispatch_Reversed(eventName) ==
    LET registered == ListenersOf(eventName)
    IN  [i \in 1..Len(registered) |-> registered[Len(registered) + 1 - i]]

\* dispatch(eventName): the callbacks invoked, in the order of invocation.
Dispatch(eventName) ==
    IF eventName \in DOMAIN listeners THEN listeners[eventName] ELSE << >>

\* The onError handler given to socket `s` when it was constructed.
SocketError(s) ==
    /\ s \in DOMAIN sockets
    /\ lastOp' = [name |-> "onError", invoked |-> Dispatch("socketError")]
    /\ UNCHANGED <<phoenixSocket, joinedChannels, listeners, sockets, channels, calls>>
    /\ UNCHANGED httpVars

\* An onClose handler that drops the stored socket and the joined channels.
SocketClose_Forget(s) ==
    /\ s \in DOMAIN sockets
    /\ lastOp' = [name |-> "onClose", invoked |-> Dispatch("socketClose")]
    /\ phoenixSocket' = NoSocket
    /\ joinedChannels' = [r \in DOMAIN joinedChannels |-> NoChannel]
    /\ UNCHANGED <<listeners, sockets, channels, calls>>
    /\ UNCHANGED httpVars

\* The onClose handler given to socket `s` when it was constructed.
SocketClose(s) ==
    /\ s \in DOMAIN sockets
    /\ lastOp' = [name |-> "onClose", invoked |-> Dispatch("socketClose")]
    /\ UNCHANGED <<phoenixSocket, joinedChannels, listeners, sockets, channels, calls>>
    /\ UNCHANGED httpVars

\* ------------------------------------------------------- inbound events
\* decodeEvent(jsonEvent): the typed event of a payload of a known shape, and
\* a falsy value for any other payload.
decodeEvent(jsonEvent) ==
    IF /\ DOMAIN jsonEvent = {"device_id", "event"}
       /\ jsonEvent.event.type \in {"device_connected", "device_disconnected"}
    THEN [decoded |-> TRUE, deviceId |-> jsonEvent.device_id, type |-> jsonEvent.event.type]
    ELSE [decoded |-> FALSE]

\* The callback listenForEvents binds, run for one message: the handler
\* call it makes and the error it throws.
OnNewEvent(eventHandler, jsonEvent) ==
    LET decodedEvent == decodeEvent(jsonEvent)
    IN  IF decodedEvent.decoded
        THEN [invoked |-> <<[handler |-> eventHandler, event |-> decodedEvent]>>,
              thrown |-> ""]
        ELSE [invoked |-> << >>, thrown |-> "Unrecognised event received"]

\* The bound callbacks run in order of binding until one throws.
RECURSIVE Trigger(_, _)
Trigger(bindings, jsonEvent) ==
    IF bindings = << >> THEN [invoked |-> << >>, thrown |-> ""]
    ELSE LET first == OnNewEvent(Head(bindings), jsonEvent)
             rest == Trigger(Tail(bindings), jsonEvent)
         IN  IF first.thrown # "" THEN first
             ELSE [invoked |-> first.invoked \o rest.invoked, thrown |-> rest.thrown]

\* A delivery that hands every payload to the handlers as it came.
NewEvent_PassThrough(channel, jsonEvent) ==
    /\ channel \in DOMAIN channels
    /\ \E r \in Rooms : joinedChannels[r] = channel
    /\ lastOp' = [name |-> "new_event", channel |-> channel, jsonEvent |-> jsonEvent,
                  invoked |-> [i \in DOMAIN channels[channel].bindings |->
                                  [handler |-> channels[channel].bindings[i],
                                   event |-> jsonEvent]],
                  thrown |-> ""]
    /\ UNCHANGED <<phoenixSocket, joinedChannels, listeners, sockets, channels, calls>>
    /\ UNCHANGED httpVars

\* A 'new_event' message arrives on a joined channel.
NewEvent(channel, jsonEvent) ==
    /\ channel \in DOMAIN channels
    /\ \E r \in Rooms : joinedChannels[r] = channel
    /\ lastOp' = [name |-> "new_event", channel |-> channel, jsonEvent |-> jsonEvent]
                    @@ Trigger(channels[channel].bindings, jsonEvent)
    /\ UNCHANGED <<phoenixSocket, joinedChannels, listeners, sockets, channels, calls>>
    /\ UNCHANGED httpVars

\* ------------------------------------------------------------------ strings
\* A JavaScript string is a sequence of symbols: one character each where
\* the characters matter (names that are encoded into a URL), one whole word
\* each where they do not. '' is << >>.
RECURSIVE Join(_)
Join(strs) == IF strs = << >> THEN << >> ELSE Head(strs) \o Join(Tail(strs))

\* `null`: a symbol no string contains.
Null == <<"<null>">>

\* _.get(params, key) || ''
GetOrEmpty(params, key) == IF key \in DOMAIN params THEN params[key] ELSE << >>

\* ---------------------------------------------------------------- endpoints
\* new URL(endpointUrl, baseUrl) keeps the path before the first '?' and the
\* search after it.
RECURSIVE Before(_, _)
Before(str, c) ==
    IF str = << >> \/ Head(str) = c THEN << >> ELSE <<Head(str)>> \o Before(Tail(str), c)

RECURSIVE After(_, _)
After(str, c) ==
    IF str = << >> THEN << >>
    ELSE IF Head(str) = c THEN Tail(str) ELSE After(Tail(str), c)

\* The segments of a path: the strings between its '/'.
RECURSIVE Split(_)
Split(path) ==
    IF "/" \in {path[i] : i \in DOMAIN path}
    THEN <<Before(path, "/")>> \o Split(After(path, "/"))
    ELSE <<path>>

\* The URL parser drops a '.' segment, and drops a '..' segment together with
\* the segment before it; either as the last segment leaves an empty one.
RECURSIVE RemoveDotSegments(_, _)
RemoveDotSegments(segments, output) ==
    IF segments = << >> THEN output
    ELSE LET segment == Head(segments)
             rest == Tail(segments)
             slash == IF rest = << >> THEN << << >> >> ELSE << >>
         IN  IF segment = <<".", ".">>
             THEN RemoveDotSegments(rest,
                     (IF output = << >> THEN output
                      ELSE SubSeq(output, 1, Len(output) - 1)) \o slash)
             ELSE IF segment = <<".">>
             THEN RemoveDotSegments(rest, output \o slash)
             ELSE RemoveDotSegments(rest, Append(output, segment))

\* new URL(endpointUrl, baseUrl).toString(), for a base URL that is the
\* directory of API `api`.
ParseURL(api, endpointUrl) ==
    [api |-> api,
     path |-> RemoveDotSegments(Split(Before(endpointUrl, "?")), << >>),
     search |-> After(endpointUrl, "?")]

\* _.flatten(_.zip(strings.slice(1), values)).join(''): the template's
\* strings with the values between them, a missing value read as ''.
Interleave(strings, values) ==
    Join([i \in 1..(2 * Len(strings)) |->
            IF i % 2 = 1 THEN strings[(i + 1) \div 2]
            ELSE IF i \div 2 <= Len(values) THEN values[i \div 2] ELSE << >>])

astarteAPIurl(api, strings, keys) ==
    [api |-> api, strings |-> strings, keys |-> keys]

\* The function astarteAPIurl returns, applied to `params`.
EndpointUrl(endpoint, params) ==
    ParseURL(endpoint.api,
             Interleave(endpoint.strings,
                        [i \in DOMAIN endpoint.keys |->
                            IF endpoint.keys[i] \in DOMAIN params
                            THEN params[endpoint.keys[i]] ELSE << >>]))

apiConfig ==
    [interfaceData |-> astarteAPIurl("realmManagement",
        << <<"v1", "/">>, <<"/", "interfaces", "/">>, <<"/">>, << >> >>,
        <<"realm", "interfaceName", "interfaceMajor">>),
     devices |-> astarteAPIurl("appEngine",
        << <<"v1", "/">>, <<"/", "devices">> >>, <<"realm">>),
     deviceInfo |-> astarteAPIurl("appEngine",
        << <<"v1", "/">>, <<"/", "devices", "/">>, << >> >>, <<"realm", "deviceId">>),
     deviceData |-> astarteAPIurl("appEngine",
        << <<"v1", "/">>, <<"/", "devices", "/">>, <<"/", "interfaces", "/">>, << >>,
           <<"?", "since=">>, <<"&", "since_after=">>, <<"&", "to=">>,
           <<"&", "limit=1000">> >>,
        <<"realm", "deviceId", "interfaceName", "path", "since", "sinceAfter", "to">>),
     groupDevices |-> astarteAPIurl("appEngine",
        << <<"v1", "/">>, <<"/", "groups", "/">>, <<"/", "devices">> >>,
        <<"realm", "groupName">>),
     deviceInGroup |-> astarteAPIurl("appEngine",
        << <<"v1", "/">>, <<"/", "groups", "/">>, <<"/", "devices", "/">>, << >> >>,
        <<"realm", "groupName", "deviceId">>),
     blocks |-> astarteAPIurl("flow",
        << <<"v1", "/">>, <<"/", "blocks">> >>, <<"realm">>),
     blockSource |-> astarteAPIurl("flow",
        << <<"v1", "/">>, <<"/", "blocks", "/">>, << >> >>, <<"realm", "blockId">>)]

\* { ...params, ...this.config }
WithConfig(params) ==
    [k \in DOMAIN params \cup {"realm"} |->
        IF k = "realm" THEN config.realm ELSE params[k]]

\* --------------------------------------------------------------------- HTTP
\* The promise an HTTP method returns. awaiting: the request it waits for;
\* response: the body of the last successful response it received; locals:
\* the local variables it keeps across its awaits.
NewHttpCall(op, args) ==
    [op |-> op, args |-> args, status |-> "pending", value |-> << >>,
     error |-> "", awaiting |-> 0, response |-> << >>, locals |-> << >>]

\* axios({ method, url, headers: { Authorization: `Bearer ${this.token}` }, data })
Axios(method, url, data, id) ==
    [method |-> method, url |-> url, authorization |-> <<"Bearer", config.token>>,
     data |-> data, call |-> id]

\* The call `id` issues a request and waits for its response.
Await(id, call, method, url, data) ==
    /\ requests' = Append(requests, Axios(method, url, data, id))
    /\ httpCalls' = IF id > Len(httpCalls)
                    THEN Append(httpCalls, [call EXCEPT !.awaiting = Len(requests) + 1])
                    ELSE [httpCalls EXCEPT ![id] = [call EXCEPT !.awaiting = Len(requests) + 1]]

\* The call `id` ends without issuing a request.
Settle(id, call) ==
    /\ httpCalls' = IF id > Len(httpCalls)
                    THEN Append(httpCalls, [call EXCEPT !.awaiting = 0])
                    ELSE [httpCalls EXCEPT ![id] = [call EXCEPT !.awaiting = 0]]
    /\ UNCHANGED requests

realtimeVars ==
    <<phoenixSocket, joinedChannels, listeners, sockets, channels, calls, lastOp>>

\* -------------------------------------------------------------- credentials
\* A setCredentials that keeps the token it has.
SetCredentials_KeepToken(params) ==
    /\ config' = [realm |-> GetOrEmpty(params, "realm"), token |-> config.token]
    /\ lastOp' = [name |-> "setCredentials", params |-> params]
    /\ UNCHANGED <<phoenixSocket, joinedChannels, listeners, sockets, channels, calls>>
    /\ UNCHANGED <<requests, httpCalls, serverBlocks, page>>

\* A setCredentials that drops the socket and the channels of the previous
\* credentials.
SetCredentials_Reconnect(params) ==
    /\ config' = [realm |-> GetOrEmpty(params, "realm"),
                  token |-> GetOrEmpty(params, "token")]
    /\ lastOp' = [name |-> "setCredentials", params |-> params]
    /\ phoenixSocket' = NoSocket
    /\ joinedChannels' = [r \in DOMAIN joinedChannels |-> NoChannel]
    /\ UNCHANGED <<listeners, sockets, channels, calls>>
    /\ UNCHANGED <<requests, httpCalls, serverBlocks, page>>

\* setCredentials(params); `null` is the record without fields.
SetCredentials(params) ==
    /\ config' = [realm |-> GetOrEmpty(params, "realm"),
                  token |-> GetOrEmpty(params, "token")]
    /\ lastOp' = [name |-> "setCredentials", params |-> params]
    /\ UNCHANGED <<phoenixSocket, joinedChannels, listeners, sockets, channels, calls>>
    /\ UNCHANGED <<requests, httpCalls, serverBlocks, page>>

\* get realm()
realm == IF config.realm # << >> THEN config.realm ELSE Null

\* ------------------------------------------------------------------- blocks
\* definitions.blocks: the blocks bundled with the dashboard.
staticBlocks ==
    << [name |-> <<"filter">>, definition |-> "native"],
       [name |-> <<"to_json">>, definition |-> "native"] >>

staticBlocksName == {staticBlocks[i].name : i \in DOMAIN staticBlocks}

\* toAstarteBlock(block): the block model built from one listed entry.
toAstarteBlock(block) == [name |-> block.name, source |-> block]

\* A merge that keeps every entry.
UniqBy_KeepAll(blocks, seen) == blocks

\* _.uniqBy(blocks, 'name'): the first entry of every name, in order.
RECURSIVE UniqBy(_, _)
UniqBy(blocks, seen) ==
    IF blocks = << >> THEN << >>
    ELSE IF Head(blocks).name \in seen THEN UniqBy(Tail(blocks), seen)
    ELSE <<Head(blocks)>> \o UniqBy(Tail(blocks), seen \cup {Head(blocks).name})

\* getBlocks(): one GET of the blocks endpoint.
GetBlocks ==
    /\ Await(Len(httpCalls) + 1, NewHttpCall("getBlocks", << >>), "get",
             EndpointUrl(apiConfig.blocks, WithConfig(<< >>)), << >>)
    /\ UNCHANGED <<realtimeVars, page, config, serverBlocks>>

\* The response to the GET of getBlocks: the blocks the Flow API stores, or
\* a failure.
GetBlocksResponse(id, reply) ==
    /\ id \in DOMAIN httpCalls
    /\ httpCalls[id].op = "getBlocks"
    /\ httpCalls[id].awaiting # 0
    /\ LET call == [httpCalls[id] EXCEPT !.awaiting = 0]
           fetchedBlocks == serverBlocks
           allBlocks == UniqBy(fetchedBlocks \o staticBlocks, {})
       IN  httpCalls' = [httpCalls EXCEPT ![id] =
              IF reply = "ok"
              THEN [call EXCEPT !.status = "resolved",
                                !.response = fetchedBlocks,
                                !.value = [i \in DOMAIN allBlocks |->
                                              toAstarteBlock(allBlocks[i])]]
              ELSE [call EXCEPT !.status = "rejected", !.error = "response"]]
    /\ UNCHANGED <<realtimeVars, page, config, requests, serverBlocks>>

\* A registerBlock that posts whatever the name.
RegisterBlock_Unchecked(block) ==
    /\ Await(Len(httpCalls) + 1, NewHttpCall("registerBlock", block), "post",
             EndpointUrl(apiConfig.blocks, WithConfig(<< >>)), block)
    /\ UNCHANGED <<realtimeVars, config, serverBlocks>>

RegisterBlock(block) ==
    LET id == Len(httpCalls) + 1
        call == NewHttpCall("registerBlock", block)
    IN  /\ IF block.name \in staticBlocksName
           THEN Settle(id, [call EXCEPT !.status = "rejected",
                                        !.error = "The block's name already exists"])
           ELSE Await(id, call, "post",
                      EndpointUrl(apiConfig.blocks, WithConfig(<< >>)), block)
        /\ UNCHANGED <<realtimeVars, config, serverBlocks>>

\* A deleteBlock that requests the deletion whatever the name.
DeleteBlock_Unchecked(blockId) ==
    /\ Await(Len(httpCalls) + 1, NewHttpCall("deleteBlock", blockId), "delete",
             EndpointUrl(apiConfig.blockSource, WithConfig([blockId |-> blockId])), << >>)
    /\ UNCHANGED <<realtimeVars, page, config, serverBlocks>>

DeleteBlock(blockId) ==
    LET id == Len(httpCalls) + 1
        call == NewHttpCall("deleteBlock", blockId)
    IN  /\ IF blockId \in staticBlocksName
           THEN Settle(id, [call EXCEPT !.status = "rejected",
                                        !.error = "Cannot delete a native block"])
           ELSE Await(id, call, "delete",
                      EndpointUrl(apiConfig.blockSource,
                                  WithConfig([blockId |-> blockId])), << >>)
        /\ UNCHANGED <<realtimeVars, page, config, serverBlocks>>

\* The response to the POST of registerBlock or the DELETE of deleteBlock.
\* The Flow API stores a posted block and forgets a deleted one when it
\* accepts the request.
BlockResponse(id, reply) ==
    /\ id \in DOMAIN httpCalls
    /\ httpCalls[id].op \in {"registerBlock", "deleteBlock"}
    /\ httpCalls[id].awaiting # 0
    /\ (reply = "ok" /\ httpCalls[id].op = "registerBlock") =>
          \A i \in DOMAIN serverBlocks : serverBlocks[i].name # httpCalls[id].args.name
    /\ LET call == [httpCalls[id] EXCEPT !.awaiting = 0]
       IN  IF reply = "ok"
           THEN /\ httpCalls' = [httpCalls EXCEPT ![id] = [call EXCEPT !.status = "resolved"]]
                /\ serverBlocks' =
                      IF call.op = "registerBlock"
                      THEN Append(serverBlocks, call.args)
                      ELSE SelectSeq(serverBlocks, LAMBDA b : b.name # call.args)
           ELSE /\ httpCalls' = [httpCalls EXCEPT ![id] =
                                    [call EXCEPT !.status = "rejected", !.error = "response"]]
                /\ UNCHANGED serverBlocks
    /\ UNCHANGED <<realtimeVars, config, requests>>

\* Another user of the Flow API stores a block; the Flow API lists one block
\* per name.
FlowStores(block) ==
    /\ \A i \in DOMAIN serverBlocks : serverBlocks[i].name # block.name
    /\ serverBlocks' = Append(serverBlocks, block)
    /\ UNCHANGED <<realtimeVars, page, config, requests, httpCalls>>

\* ------------------------------------------------------------------- groups
\* encodeURIComponent leaves letters, digits and - _ . ! ~ * ' ( ) as they
\* are and escapes every other character.
EncodeSymbol(c) ==
    CASE c = "%" -> <<"%", "2", "5">>
      [] c = "/" -> <<"%", "2", "F">>
      [] c = "?" -> <<"%", "3", "F">>
      [] c = "\"" -> <<"%", "2", "2">>
      [] OTHER -> <<c>>

encodeURIComponent(str) == Join([i \in DOMAIN str |-> EncodeSymbol(str[i])])

\* encodeURIComponent(encodeURIComponent(groupName))
EncodeTwice(str) == encodeURIComponent(encodeURIComponent(str))

\* getDevicesInGroup({ groupName, details })
GetDevicesInGroup(params) ==
    LET id == Len(httpCalls) + 1
        call == NewHttpCall("getDevicesInGroup", params)
        endpointUri == EndpointUrl(apiConfig.groupDevices,
                          WithConfig([groupName |-> EncodeTwice(params.groupName)]))
    IN  /\ IF params.groupName = << >>
           THEN Settle(id, [call EXCEPT !.status = "rejected",
                                        !.error = "Invalid group name"])
           ELSE Await(id, call, "get",
                      IF params.details
                      THEN [endpointUri EXCEPT !.search = <<"details=true">>]
                      ELSE endpointUri,
                      << >>)
        /\ UNCHANGED <<realtimeVars, page, config, serverBlocks>>

\* An addDeviceToGroup that checks the device ID before the group name.
AddDeviceToGroup_DeviceFirst(params) ==
    LET id == Len(httpCalls) + 1
        call == NewHttpCall("addDeviceToGroup", params)
    IN  /\ IF params.deviceId = << >>
           THEN Settle(id, [call EXCEPT !.status = "rejected",
                                        !.error = "Invalid device ID"])
           ELSE IF params.groupName = << >>
           THEN Settle(id, [call EXCEPT !.status = "rejected",
                                        !.error = "Invalid group name"])
           ELSE Await(id, call, "post",
                      EndpointUrl(apiConfig.groupDevices,
                         WithConfig([groupName |-> EncodeTwice(params.groupName)])),
                      [device_id |-> params.deviceId])
        /\ UNCHANGED <<realtimeVars, page, config, serverBlocks>>

\* addDeviceToGroup({ groupName, deviceId })
AddDeviceToGroup(params) ==
    LET id == Len(httpCalls) + 1
        call == NewHttpCall("addDeviceToGroup", params)
    IN  /\ IF params.groupName = << >>
           THEN Settle(id, [call EXCEPT !.status = "rejected",
                                        !.error = "Invalid group name"])
           ELSE IF params.deviceId = << >>
           THEN Settle(id, [call EXCEPT !.status = "rejected",
                                        !.error = "Invalid device ID"])
           ELSE Await(id, call, "post",
                      EndpointUrl(apiConfig.groupDevices,
                         WithConfig([groupName |-> EncodeTwice(params.groupName)])),
                      [device_id |-> params.deviceId])
        /\ UNCHANGED <<realtimeVars, page, config, serverBlocks>>

\* removeDeviceFromGroup({ groupName, deviceId })
RemoveDeviceFromGroup(params) ==
    LET id == Len(httpCalls) + 1
        call == NewHttpCall("removeDeviceFromGroup", params)
    IN  /\ IF params.groupName = << >>
           THEN Settle(id, [call EXCEPT !.status = "rejected",
                                        !.error = "Invalid group name"])
           ELSE IF params.deviceId = << >>
           THEN Settle(id, [call EXCEPT !.status = "rejected",
                                        !.error = "Invalid device ID"])
           ELSE Await(id, call, "delete",
                      EndpointUrl(apiConfig.deviceInGroup,
                         WithConfig([groupName |-> EncodeTwice(params.groupName),
                                     deviceId |-> params.deviceId])),
                      << >>)
        /\ UNCHANGED <<realtimeVars, page, config, serverBlocks>>

\* The response to the request of a group method.
GroupResponse(id, reply) ==
    /\ id \in DOMAIN httpCalls
    /\ httpCalls[id].op \in {"getDevicesInGroup", "addDeviceToGroup", "removeDeviceFromGroup"}
    /\ httpCalls[id].awaiting # 0
    /\ httpCalls' = [httpCalls EXCEPT ![id] =
          [@ EXCEPT !.awaiting = 0,
                    !.status = IF reply = "ok" THEN "resolved" ELSE "rejected",
                    !.error = IF reply = "ok" THEN "" ELSE "response"]]
    /\ UNCHANGED <<realtimeVars, page, config, requests, serverBlocks>>

\* ------------------------------------------------------------------ devices
\* fromAstarteDeviceDTO(dto): the device model built from a DTO.
fromAstarteDeviceDTO(dto) == [id |-> dto.id, introspection |-> dto.introspection]

\* The parts of a string between the occurrences of `c`.
RECURSIVE SplitAt(_, _)
SplitAt(str, c) ==
    IF c \in {str[i] : i \in DOMAIN str}
    THEN <<Before(str, c)>> \o SplitAt(After(str, c), c)
    ELSE <<str>>

\* new URLSearchParams(init) for a string: a leading '?' is dropped, the
\* rest is cut at every '&', and each part is a name up to its first '=' and
\* a value after it. `undefined` is read as ''.
URLSearchParams(init) ==
    LET query == IF init # << >> /\ Head(init) = "?" THEN Tail(init) ELSE init
        parts == SelectSeq(SplitAt(query, "&"), LAMBDA part : part # << >>)
    IN  [i \in DOMAIN parts |->
            [name |-> Before(parts[i], "="), value |-> After(parts[i], "=")]]

\* URLSearchParams.get(name): the value of the first pair of that name, or
\* null.
SearchParamsGet(searchParams, name) ==
    LET hits == {i \in DOMAIN searchParams : searchParams[i].name = name}
    IN  IF hits = {} THEN Null
        ELSE searchParams[CHOOSE i \in hits : \A j \in hits : i <= j].value

\* new URLSearchParams(query).toString() for the query getDevices builds.
DevicesQuery(params) ==
    LET query == (IF params.details THEN << <<"details", "=", "true">> >> ELSE << >>)
                 \o (IF params.limit # 0 THEN << <<"limit", "=", "10">> >> ELSE << >>)
                 \o (IF params.from # << >>
                     THEN << <<"from_token", "=">> \o params.from >> ELSE << >>)
    IN  Join([i \in 1..(2 * Len(query)) |->
                IF i % 2 = 1 THEN query[(i + 1) \div 2]
                ELSE IF i \div 2 < Len(query) THEN <<"&">> ELSE << >>])

\* getDevices({ details, from, limit }): one GET of the devices endpoint.
GetDevices(params) ==
    /\ Await(Len(httpCalls) + 1, NewHttpCall("getDevices", params), "get",
             [EndpointUrl(apiConfig.devices, WithConfig(<< >>))
                 EXCEPT !.search = DevicesQuery(params)],
             << >>)
    /\ UNCHANGED <<realtimeVars, page, config, serverBlocks>>

\* The response to the GET of getDevices: a failure, or `body`. Reading
\* response.links.next of a body without links is a TypeError.
GetDevicesResponse(id, reply, body) ==
    /\ id \in DOMAIN httpCalls
    /\ httpCalls[id].op = "getDevices"
    /\ httpCalls[id].awaiting # 0
    /\ LET call == [httpCalls[id] EXCEPT !.awaiting = 0]
       IN  httpCalls' = [httpCalls EXCEPT ![id] =
              IF reply # "ok"
              THEN [call EXCEPT !.status = "rejected", !.error = "response"]
              ELSE IF "links" \notin DOMAIN body
              THEN [call EXCEPT !.status = "rejected", !.error = "TypeError",
                                !.response = body]
              ELSE [call EXCEPT
                      !.status = "resolved", !.response = body,
                      !.value =
                         [devices |-> [i \in DOMAIN body.data |->
                                          fromAstarteDeviceDTO(body.data[i])],
                          nextToken |->
                             SearchParamsGet(
                                URLSearchParams(IF "next" \in DOMAIN body.links
                                                THEN body.links.next ELSE << >>),
                                <<"from_token">>)]]]
    /\ UNCHANGED <<realtimeVars, page, config, requests, serverBlocks>>

\* ------------------------------------------------------- getDeviceDataTree
\* fromAstarteInterfaceDTO(dto): the interface model built from a DTO.
fromAstarteInterfaceDTO(dto) == [name |-> dto.interface_name, major |-> dto.version_major]

\* toAstarteDataTree({ interface, data, endpoint }): the tree of an
\* interface's values.
toAstarteDataTree(params) == [tree |-> params.interface.name, values |-> params.data]

\* A number written into a URL.
NumberToString(n) == CASE n = 0 -> <<"0">> [] n = 1 -> <<"1">> [] n = 2 -> <<"2">>

\* this.getDeviceData({ deviceId, interfaceName: iface.name, ... }) in call
\* `id`, which keeps `iface`.
GetDeviceData(id, call, iface) ==
    Await(id, [call EXCEPT !.locals = [k \in DOMAIN @ \cup {"iface"} |->
                                         IF k = "iface" THEN iface ELSE @[k]]],
          "get",
          EndpointUrl(apiConfig.deviceData,
                      WithConfig([deviceId |-> call.args.deviceId,
                                  interfaceName |-> iface.name])),
          << >>)

\* getDeviceDataTree(params), up to its first await.
GetDeviceDataTree(params) ==
    LET id == Len(httpCalls) + 1
        call == NewHttpCall("getDeviceDataTree", params)
    IN  /\ IF "interface" \in DOMAIN params
           THEN GetDeviceData(id, call, params.interface)
           ELSE Await(id, call, "get",
                      EndpointUrl(apiConfig.deviceInfo,
                                  WithConfig([deviceId |-> params.deviceId])),
                      << >>)
        /\ UNCHANGED <<realtimeVars, page, config, serverBlocks>>

\* A getDeviceDataTree that asks for the interface without looking at the
\* introspection.
DeviceInfoResponse_NoLookup(id, reply, dto) ==
    /\ id \in DOMAIN httpCalls
    /\ httpCalls[id].op = "getDeviceDataTree"
    /\ httpCalls[id].awaiting # 0
    /\ httpCalls[id].locals = << >>
    /\ "interface" \notin DOMAIN httpCalls[id].args
    /\ LET call == [httpCalls[id] EXCEPT !.awaiting = 0]
           device == fromAstarteDeviceDTO(dto)
       IN  IF reply # "ok"
           THEN /\ httpCalls' = [httpCalls EXCEPT ![id] =
                       [call EXCEPT !.status = "rejected", !.error = "response"]]
                /\ UNCHANGED requests
           ELSE Await(id, [call EXCEPT !.locals = [device |-> device]], "get",
                      EndpointUrl(apiConfig.interfaceData,
                         WithConfig([interfaceName |-> call.args.interfaceName,
                                     interfaceMajor |-> NumberToString(0)])),
                      << >>)
    /\ UNCHANGED <<realtimeVars, page, config, serverBlocks>>

\* The response to getDeviceInfo in getDeviceDataTree: a failure, or a device.
DeviceInfoResponse(id, reply, dto) ==
    /\ id \in DOMAIN httpCalls
    /\ httpCalls[id].op = "getDeviceDataTree"
    /\ httpCalls[id].awaiting # 0
    /\ httpCalls[id].locals = << >>
    /\ "interface" \notin DOMAIN httpCalls[id].args
    /\ LET call == [httpCalls[id] EXCEPT !.awaiting = 0]
           device == fromAstarteDeviceDTO(dto)
           interfaceName == call.args.interfaceName
       IN  IF reply # "ok"
           THEN /\ httpCalls' = [httpCalls EXCEPT ![id] =
                       [call EXCEPT !.status = "rejected", !.error = "response"]]
                /\ UNCHANGED requests
           ELSE IF interfaceName \notin DOMAIN device.introspection
           THEN /\ httpCalls' = [httpCalls EXCEPT ![id] =
                       [call EXCEPT !.status = "rejected",
                                    !.locals = [device |-> device],
                                    !.error = "Could not find interface in device introspection"]]
                /\ UNCHANGED requests
           ELSE Await(id, [call EXCEPT !.locals = [device |-> device]], "get",
                      EndpointUrl(apiConfig.interfaceData,
                         WithConfig([interfaceName |-> interfaceName,
                                     interfaceMajor |-> NumberToString(
                                        device.introspection[interfaceName].major)])),
                      << >>)
    /\ UNCHANGED <<realtimeVars, page, config, serverBlocks>>

\* The response to getInterface in getDeviceDataTree: a failure, or an
\* interface definition.
InterfaceResponse(id, reply, dto) ==
    /\ id \in DOMAIN httpCalls
    /\ httpCalls[id].op = "getDeviceDataTree"
    /\ httpCalls[id].awaiting # 0
    /\ DOMAIN httpCalls[id].locals = {"device"}
    /\ LET call == [httpCalls[id] EXCEPT !.awaiting = 0]
       IN  IF reply # "ok"
           THEN /\ httpCalls' = [httpCalls EXCEPT ![id] =
                       [call EXCEPT !.status = "rejected", !.error = "response"]]
                /\ UNCHANGED requests
           ELSE GetDeviceData(id, call, fromAstarteInterfaceDTO(dto))
    /\ UNCHANGED <<realtimeVars, page, config, serverBlocks>>

\* The response to getDeviceData in getDeviceDataTree: a failure, or the
\* interface's values.
DeviceDataResponse(id, reply) ==
    /\ id \in DOMAIN httpCalls
    /\ httpCalls[id].op = "getDeviceDataTree"
    /\ httpCalls[id].awaiting # 0
    /\ "iface" \in DOMAIN httpCalls[id].locals
    /\ LET call == [httpCalls[id] EXCEPT !.awaiting = 0]
       IN  httpCalls' = [httpCalls EXCEPT ![id] =
              IF reply # "ok"
              THEN [call EXCEPT !.status = "rejected", !.error = "response"]
              ELSE [call EXCEPT !.status = "resolved",
                                !.value = toAstarteDataTree(
                                   [interface |-> call.locals.iface,
                                    data |-> <<"values">>])]]
    /\ UNCHANGED <<realtimeVars, page, config, requests, serverBlocks>>

\* ----------------------------------------------------------- New Block page
\* Text typed into the page is a sequence of symbols; a word symbol stands
\* for a run of characters.

\* String.prototype.trim()
RECURSIVE TrimStart(_)
TrimStart(string) ==
    IF string # << >> /\ Head(string) = " " THEN TrimStart(Tail(string)) ELSE string

RECURSIVE TrimEnd(_)
TrimEnd(string) ==
    IF string # << >> /\ string[Len(string)] = " "
    THEN TrimEnd(SubSeq(string, 1, Len(string) - 1))
    ELSE string

Trim(string) == TrimEnd(TrimStart(string))

\* JSON.parse(text) of the texts typed here: the value, or a SyntaxError
\* thrown.
JSONParse(text) ==
    CASE text = <<"{", "}">> -> [thrown |-> FALSE, value |-> [object |-> << >>]]
      [] text = <<"1">> -> [thrown |-> FALSE, value |-> [number |-> 1]]
      [] OTHER -> [thrown |-> TRUE, value |-> << >>]

isJSON(string) == ~JSONParse(string).thrown

\* The state hooks of the page as first rendered, no alert shown, nothing
\* pushed to the history.
InitialPage ==
    [block |-> [name |-> << >>, source |-> << >>, type |-> "producer", schema |-> << >>],
     isValidated |-> FALSE,
     isCreatingBlock |-> FALSE,
     alert |-> << >>,
     history |-> << >>]

\* /^[a-zA-Z][a-zA-Z0-9-_]*$/.test(block.name) && block.name !== "new"
isValidBlockName ==
    /\ page.block.name # << >>
    /\ Head(page.block.name) \in NameWords
    /\ \A i \in DOMAIN page.block.name : page.block.name[i] \in NameRuns
    /\ page.block.name # <<"new">>

isValidBlockSource == page.block.source # << >>

isValidBlockType == page.block.type \in {"producer", "consumer", "producer_consumer"}

isValidBlockSchema == isJSON(Trim(page.block.schema))

isValidBlock ==
    isValidBlockName /\ isValidBlockSource /\ isValidBlockType /\ isValidBlockSchema

\* The page is rendered until it pushes another location.
Mounted == page.history = << >>

\* The callbacks createBlock chains on the promise of registerBlock, run
\* once it is settled: .then pushes /blocks, .catch resets the pending flag
\* and shows the error.
Settled(rendered, call) ==
    CASE call.status = "resolved" ->
            [rendered EXCEPT !.history = Append(@, "/blocks")]
      [] call.status = "rejected" ->
            [rendered EXCEPT !.isCreatingBlock = FALSE,
                             !.alert = <<"Couldn't create block: ", call.error>>]
      [] OTHER -> rendered

\* onChange of the four form controls: setBlock({ ...block, [field]: value })
OnChange(field, value) ==
    /\ Mounted
    /\ page' = [page EXCEPT !.block[field] = value]
    /\ UNCHANGED <<realtimeVars, config, requests, httpCalls, serverBlocks>>

\* createBlock(), called with the state hooks as handleSubmit has set them.
CreateBlock(rendered) ==
    LET creating == [rendered EXCEPT !.isCreatingBlock = TRUE]
        schema == JSONParse(Trim(page.block.schema))
        newBlock == [page.block EXCEPT !.schema = schema.value]
    IN  IF schema.thrown
        THEN /\ page' = creating
             /\ UNCHANGED <<realtimeVars, config, requests, httpCalls, serverBlocks>>
        ELSE /\ RegisterBlock(newBlock)
             /\ page' = Settled(creating, httpCalls'[Len(httpCalls')])

HandleSubmit ==
    LET validated == [page EXCEPT !.isValidated = TRUE]
    IN  IF isValidBlock
        THEN CreateBlock(validated)
        ELSE /\ page' = validated
             /\ UNCHANGED <<realtimeVars, config, requests, httpCalls, serverBlocks>>

\* A button that stays enabled while a block is being created.
ClickCreate_WhileCreating ==
    /\ Mounted
    /\ isValidBlock
    /\ HandleSubmit

\* A click on "Create new block": the button is disabled, and has no
\* onClick, while a block is being created; it is disabled while the block
\* is not valid.
ClickCreate ==
    /\ Mounted
    /\ ~(page.isCreatingBlock \/ ~isValidBlock)
    /\ ~page.isCreatingBlock
    /\ HandleSubmit

\* The response to the POST of registerBlock reaches the page's callbacks.
CreationResponse(id, reply) ==
    /\ BlockResponse(id, reply)
    /\ page' = Settled(page, httpCalls'[id])

\* ------------------------------------------------------------ specifications
Init ==
    /\ phoenixSocket = NoSocket
    /\ joinedChannels = [r \in Rooms |-> NoChannel]
    /\ listeners = << >>
    /\ sockets = << >>
    /\ channels = << >>
    /\ calls = << >>
    /\ lastOp = NoOp
    /\ config = [realm |-> << >>, token |-> << >>]
    /\ requests = << >>
    /\ httpCalls = << >>
    /\ serverBlocks = << >>
    /\ page = InitialPage

\* The channel manager: any calls on any rooms, any replies.
Next ==
    \/ \E r \in Rooms : Len(calls) < MaxCalls /\ JoinRoom(r)
    \/ \E r \in Rooms : Len(calls) < MaxCalls /\ LeaveRoom(r)
    \/ \E r \in Rooms, p \in Triggers :
          Len(calls) < MaxCalls /\ RegisterVolatileTrigger(r, p)
    \/ \E r \in Rooms, h \in Handlers :
          Len(calls) < MaxCalls /\ ListenForEvents(r, h)
    \/ \E s \in DOMAIN sockets : SocketOpened(s)
    \/ \E id \in DOMAIN calls, reply \in Replies : JoinReply(id, reply)
    \/ \E id \in DOMAIN calls, reply \in Replies : LeaveReply(id, reply)
    \/ \E id \in DOMAIN calls, reply \in Replies : WatchReply(id, reply)

Spec == Init /\ [][Next]_vars

\* Callbacks registered at present, over both event names.
Registrations == Len(ListenersOf("socketError")) + Len(ListenersOf("socketClose"))

ListenerOps == Len(calls) + Registrations

CanCall == Len(calls) < MaxListenerCalls /\ ListenerOps < MaxListenerOps

\* The listener registry beside a channel manager in use.
NextListeners ==
    \/ \E r \in ListenerRooms : CanCall /\ JoinRoom(r)
    \/ \E r \in ListenerRooms : CanCall /\ LeaveRoom(r)
    \/ \E r \in ListenerRooms, p \in Triggers :
          CanCall /\ RegisterVolatileTrigger(r, p)
    \/ \E s \in DOMAIN sockets : SocketOpened(s)
    \/ \E id \in DOMAIN calls, reply \in Replies : JoinReply(id, reply)
    \/ \E id \in DOMAIN calls, reply \in Replies : LeaveReply(id, reply)
    \/ \E id \in DOMAIN calls, reply \in Replies : WatchReply(id, reply)
    \/ \E e \in EventNames, cb \in Callbacks :
          ListenerOps < MaxListenerOps /\ AddListener(e, cb)
    \/ \E e \in EventNames, cb \in Callbacks : RemoveListener(e, cb)
    \/ \E s \in DOMAIN sockets : SocketError(s)
    \/ \E s \in DOMAIN sockets : SocketClose(s)

SpecListeners == Init /\ [][NextListeners]_vars

\* The client constructed with the credentials of a realm.
InitLoggedIn ==
    /\ phoenixSocket = NoSocket
    /\ joinedChannels = [r \in Rooms |-> NoChannel]
    /\ listeners = << >>
    /\ sockets = << >>
    /\ channels = << >>
    /\ calls = << >>
    /\ lastOp = NoOp
    /\ config = [realm |-> <<"realmA">>, token |-> <<"tokenA">>]
    /\ requests = << >>
    /\ httpCalls = << >>
    /\ serverBlocks = << >>
    /\ page = InitialPage

CanCredentialCall == Len(calls) + Len(httpCalls) < MaxCredentialCalls

\* Credentials changed between HTTP requests and room joins.
NextCredentials ==
    \/ \E params \in CredentialParams : SetCredentials(params)
    \/ CanCredentialCall /\ GetBlocks
    \/ \E b \in CustomBlocks : CanCredentialCall /\ DeleteBlock(b.name)
    \/ \E r \in ListenerRooms :
          CanCredentialCall /\ Len(calls) < MaxCredentialJoins /\ JoinRoom(r)
    \/ \E s \in DOMAIN sockets : SocketOpened(s)
    \/ \E id \in DOMAIN calls, reply \in Replies : JoinReply(id, reply)

SpecCredentials == Init /\ [][NextCredentials]_vars

\* The blocks of the Flow API, read and changed by the client beside other
\* users.
NextBlocks ==
    \/ \E b \in OtherBlocks : Len(serverBlocks) < MaxServerBlocks /\ FlowStores(b)
    \/ Len(httpCalls) < MaxHttpCalls /\ GetBlocks
    \/ \E b \in NewBlocks :
          Len(httpCalls) < MaxHttpCalls /\ RegisterBlock(b) /\ UNCHANGED page
    \/ \E b \in NewBlocks : Len(httpCalls) < MaxHttpCalls /\ DeleteBlock(b.name)
    \/ \E id \in DOMAIN httpCalls, reply \in Replies : GetBlocksResponse(id, reply)
    \/ \E id \in DOMAIN httpCalls, reply \in Replies :
          BlockResponse(id, reply) /\ UNCHANGED page

SpecBlocks == InitLoggedIn /\ [][NextBlocks]_vars

\* The group methods, with any group name and device ID.
NextGroups ==
    \/ \E g \in GroupNames, details \in BOOLEAN :
          /\ Len(httpCalls) < MaxGroupCalls
          /\ GetDevicesInGroup([groupName |-> g, details |-> details])
    \/ \E g \in GroupNames, d \in DeviceIds :
          /\ Len(httpCalls) < MaxGroupCalls
          /\ AddDeviceToGroup([groupName |-> g, deviceId |-> d])
    \/ \E g \in GroupNames, d \in DeviceIds :
          /\ Len(httpCalls) < MaxGroupCalls
          /\ RemoveDeviceFromGroup([groupName |-> g, deviceId |-> d])
    \/ \E id \in DOMAIN httpCalls, reply \in Replies : GroupResponse(id, reply)

SpecGroups == InitLoggedIn /\ [][NextGroups]_vars

\* Device listing, with any successful response or a failure.
NextDevices ==
    \/ \E params \in DevicesParams : Len(httpCalls) < MaxHttpCalls /\ GetDevices(params)
    \/ \E id \in DOMAIN httpCalls, body \in DeviceListBodies :
          GetDevicesResponse(id, "ok", body)
    \/ \E id \in DOMAIN httpCalls : GetDevicesResponse(id, "error", << >>)

SpecDevices == InitLoggedIn /\ [][NextDevices]_vars

\* Device data trees, with any response to each request.
NextDataTree ==
    \/ \E params \in DataTreeParams :
          Len(httpCalls) < MaxHttpCalls /\ GetDeviceDataTree(params)
    \/ \E id \in DOMAIN httpCalls, reply \in Replies, dto \in DeviceDTOs :
          DeviceInfoResponse(id, reply, dto)
    \/ \E id \in DOMAIN httpCalls, reply \in Replies, dto \in InterfaceDTOs :
          InterfaceResponse(id, reply, dto)
    \/ \E id \in DOMAIN httpCalls, reply \in Replies : DeviceDataResponse(id, reply)

SpecDataTree == InitLoggedIn /\ [][NextDataTree]_vars

\* Inbound events on a room with handlers listening.
NextEvents ==
    \/ \E r \in ListenerRooms : Len(calls) < MaxEventCalls /\ JoinRoom(r)
    \/ \E r \in ListenerRooms, h \in EventHandlers :
          Len(calls) < MaxEventCalls /\ ListenForEvents(r, h)
    \/ \E s \in DOMAIN sockets : SocketOpened(s)
    \/ \E id \in DOMAIN calls, reply \in Replies : JoinReply(id, reply)
    \/ \E ch \in DOMAIN channels, jsonEvent \in JsonEvents : NewEvent(ch, jsonEvent)

SpecEvents == Init /\ [][NextEvents]_vars

\* Socket errors and closes beside joins of a room, with listeners
\* registered.
NextSocketEvents ==
    \/ \E r \in ListenerRooms : Len(calls) < MaxSocketCalls /\ JoinRoom(r)
    \/ \E s \in DOMAIN sockets : SocketOpened(s)
    \/ \E id \in DOMAIN calls, reply \in Replies : JoinReply(id, reply)
    \/ \E e \in EventNames, cb \in Handlers :
          Registrations < MaxSocketListeners /\ AddListener(e, cb)
    \/ \E s \in DOMAIN sockets : SocketError(s)
    \/ \E s \in DOMAIN sockets : SocketClose(s)

SpecSocketEvents == Init /\ [][NextSocketEvents]_vars

\* Credentials changed while a socket and joined rooms are in use.
NextSocketReuse ==
    \/ \E params \in NextCredentialParams : SetCredentials(params)
    \/ \E r \in ListenerRooms : Len(calls) < MaxReuseCalls /\ JoinRoom(r)
    \/ \E s \in DOMAIN sockets : SocketOpened(s)
    \/ \E id \in DOMAIN calls, reply \in Replies : JoinReply(id, reply)
    \/ \E cb \in Handlers :
          Registrations < MaxReuseListeners /\ AddListener("socketClose", cb)

SpecSocketReuse == InitLoggedIn /\ [][NextSocketReuse]_vars

\* The New Block page in use, the Flow API answering.
NextNewBlockPage ==
    \/ \E field \in DOMAIN BlockInputs : \E value \in BlockInputs[field] :
          OnChange(field, value)
    \/ Len(httpCalls) < MaxSubmits /\ ClickCreate
    \/ \E id \in DOMAIN httpCalls, reply \in Replies : CreationResponse(id, reply)

SpecNewBlockPage == InitLoggedIn /\ [][NextNewBlockPage]_vars

\* ------------------------------------------------------------------ claims
\* This step is a call of method `op` for room `roomName`: its promise is
\* the last of calls'.
IsCall(op, roomName) ==
    /\ Len(calls') = Len(calls) + 1
    /\ SubSeq(calls', 1, Len(calls)) = calls
    /\ calls'[Len(calls')].op = op
    /\ calls'[Len(calls')].room = roomName

Returned == calls'[Len(calls')]

\* C1: two joinRoom calls for the same room issued before either has
\* resolved both resolve to the identical channel handle, and exactly one
\* join handshake is performed for them.
C1_ConcurrentJoinsShareHandle ==
    \A c1, c2 \in DOMAIN calls :
        ( /\ calls[c2].op = "joinRoom"
          /\ c1 \in calls[c2].overlaps
          /\ calls[c1].status = "resolved"
          /\ calls[c2].status = "resolved" )
        => /\ calls[c1].value = calls[c2].value
           /\ Cardinality({c \in {c1, c2} : calls[c].chan # NoChannel}) = 1

\* C2: over any sequence and interleaving of joinRoom calls at most one
\* socket is ever created.
C2_AtMostOneSocket == Len(sockets) <= 1

\* C3: joinRoom for a room with a cached handle resolves with exactly that
\* handle, performs no join handshake, opens no socket and leaves the
\* registry unchanged; so does the joinRoom re-entered when its socket opens.
C3_JoinRoomIdempotent ==
    [][ /\ \A r \in Rooms :
              (IsCall("joinRoom", r) /\ joinedChannels[r] # NoChannel)
              => /\ Returned.status = "resolved"
                 /\ Returned.value = joinedChannels[r]
                 /\ channels' = channels
                 /\ sockets' = sockets
                 /\ phoenixSocket' = phoenixSocket
                 /\ joinedChannels' = joinedChannels
        /\ \A id \in DOMAIN calls :
              ( /\ calls[id].awaiting = "socket"
                /\ calls'[id].awaiting # "socket"
                /\ joinedChannels[calls[id].room] # NoChannel )
              => /\ calls'[id].status = "resolved"
                 /\ calls'[id].value = joinedChannels[calls[id].room]
                 /\ channels' = channels
                 /\ Len(sockets') = Len(sockets)
                 /\ joinedChannels' = joinedChannels
      ]_vars

\* A joinRoom call answered from the cache: resolved without a handshake
\* or a socket of its own.
C3_Witness ==
    \E id \in DOMAIN calls :
        /\ calls[id].op = "joinRoom"
        /\ calls[id].status = "resolved"
        /\ calls[id].chan = NoChannel
        /\ calls[id].sock = NoSocket
        /\ calls[id].value = joinedChannels[calls[id].room]

\* In this step call `id` receives `reply` to its handshake or push.
Receives(id, reply) ==
    /\ calls[id].reply = "none"
    /\ calls'[id].reply = reply

\* C4: a room enters the registry only when its join handshake is
\* acknowledged with 'ok'; when the handshake is answered with 'error' the
\* registry is unchanged and the room is not in joinedRooms.
C4_RegistryOnlyAfterOk ==
    [][ /\ \A r \in Rooms :
              (joinedChannels'[r] # joinedChannels[r] /\ joinedChannels'[r] # NoChannel)
              => \E id \in DOMAIN calls :
                    /\ calls[id].op = "joinRoom"
                    /\ calls[id].room = r
                    /\ calls[id].chan = joinedChannels'[r]
                    /\ Receives(id, "ok")
        /\ \A id \in DOMAIN calls :
              (calls[id].op = "joinRoom" /\ Receives(id, "error"))
              => /\ joinedChannels' = joinedChannels
                 /\ joinedChannels'[calls[id].room] = NoChannel
      ]_vars

\* C5: a joinRoom call whose join handshake was answered with 'error' is
\* rejected with the handshake error.
C5_JoinErrorRejects ==
    \A id \in DOMAIN calls :
        (calls[id].op = "joinRoom" /\ calls[id].reply = "error")
        => /\ calls[id].status = "rejected"
           /\ calls[id].error = "reply"

PreconditionError(op) ==
    CASE op = "listenForEvents" -> "Can't listen for room events before joining it first"
      [] op = "registerVolatileTrigger" -> "Room not joined, couldn't register trigger"
      [] op = "leaveRoom" -> "Can't leave a room without joining it first"

\* C6: listenForEvents, registerVolatileTrigger and leaveRoom for a room with
\* no cached handle reject with their precondition error and change nothing
\* else: no channel, socket, registry, listener or other promise.
C6_NotJoinedRejects ==
    [][ \A r \in Rooms :
        \A op \in {"listenForEvents", "registerVolatileTrigger", "leaveRoom"} :
            (IsCall(op, r) /\ joinedChannels[r] = NoChannel)
            => /\ Returned.status = "rejected"
               /\ Returned.error = PreconditionError(op)
               /\ channels' = channels
               /\ sockets' = sockets
               /\ phoenixSocket' = phoenixSocket
               /\ joinedChannels' = joinedChannels
               /\ listeners' = listeners
      ]_vars

\* Each of the three methods was called for a room not joined, and rejected.
C6_Witness ==
    \A op \in {"listenForEvents", "registerVolatileTrigger", "leaveRoom"} :
        \E id \in DOMAIN calls :
            /\ calls[id].op = op
            /\ calls[id].status = "rejected"
            /\ calls[id].error = PreconditionError(op)
            /\ calls[id].chan = NoChannel

\* leaveRoom on a joined room pushes one leave handshake on the cached
\* channel and leaves the registry alone until the reply.
LeaveCallHandshake ==
    \A r \in Rooms :
        (IsCall("leaveRoom", r) /\ joinedChannels[r] # NoChannel)
        => /\ channels' = [channels EXCEPT ![joinedChannels[r]].pushed =
                                              Append(@, Message("phx_leave", ""))]
           /\ Returned.status = "pending"
           /\ Returned.chan = joinedChannels[r]
           /\ joinedChannels' = joinedChannels

\* An 'ok' reply resolves the call and removes the room's entry, and an
\* entry is removed by no other step.
LeaveOkRemoves ==
    /\ \A id \in DOMAIN calls :
          (calls[id].op = "leaveRoom" /\ Receives(id, "ok"))
          => /\ calls'[id].status = "resolved"
             /\ joinedChannels' = [joinedChannels EXCEPT ![calls[id].room] = NoChannel]
    /\ \A r \in Rooms :
          (joinedChannels[r] # NoChannel /\ joinedChannels'[r] = NoChannel)
          => \E id \in DOMAIN calls :
                /\ calls[id].op = "leaveRoom"
                /\ calls[id].room = r
                /\ Receives(id, "ok")

\* C7 as stated: one leave handshake; the handle is removed only on 'ok';
\* on 'error' the call rejects and the room is still listed in joinedRooms.
C7_LeaveErrorKeepsRoom ==
    [][ /\ LeaveCallHandshake
        /\ LeaveOkRemoves
        /\ \A id \in DOMAIN calls :
              (calls[id].op = "leaveRoom" /\ Receives(id, "error"))
              => /\ calls'[id].status = "rejected"
                 /\ calls'[id].error = "reply"
                 /\ joinedChannels'[calls[id].room] # NoChannel
      ]_vars

\* C7 as amended: one leave handshake; the handle is removed only on 'ok';
\* on 'error' the call rejects and the registry is left as it was.
C7_LeaveErrorKeepsRegistry ==
    [][ /\ LeaveCallHandshake
        /\ LeaveOkRemoves
        /\ \A id \in DOMAIN calls :
              (calls[id].op = "leaveRoom" /\ Receives(id, "error"))
              => /\ calls'[id].status = "rejected"
                 /\ calls'[id].error = "reply"
                 /\ joinedChannels' = joinedChannels
      ]_vars

\* A leaveRoom was answered with 'error': it is rejected and its room still
\* holds the handle it tried to leave.
C7_Witness ==
    \E id \in DOMAIN calls :
        /\ calls[id].op = "leaveRoom"
        /\ calls[id].reply = "error"
        /\ calls[id].status = "rejected"
        /\ joinedChannels[calls[id].room] = calls[id].chan

\* C8: registerVolatileTrigger on a joined room pushes exactly one 'watch'
\* message with the payload on the room's cached channel, resolves exactly
\* when the reply is 'ok', rejects with the reply when it is 'error', and
\* never changes the registry.
C8_RegisterVolatileTrigger ==
    [][ /\ \A r \in Rooms, p \in Triggers :
              ( /\ IsCall("registerVolatileTrigger", r)
                /\ Returned.payload = p
                /\ joinedChannels[r] # NoChannel )
              => /\ channels' = [channels EXCEPT ![joinedChannels[r]].pushed =
                                                    Append(@, Message("watch", p))]
                 /\ Returned.status = "pending"
                 /\ Returned.chan = joinedChannels[r]
                 /\ joinedChannels' = joinedChannels
        /\ \A id \in DOMAIN calls :
              calls[id].op = "registerVolatileTrigger"
              => /\ Receives(id, "ok")
                    => (calls'[id].status = "resolved" /\ joinedChannels' = joinedChannels)
                 /\ Receives(id, "error")
                    => /\ calls'[id].status = "rejected"
                       /\ calls'[id].error = "reply"
                       /\ joinedChannels' = joinedChannels
                 /\ (calls[id].status = "pending" /\ calls'[id].status = "resolved")
                    => Receives(id, "ok")
      ]_vars

\* One trigger registration was acknowledged and another refused.
C8_Witness ==
    \E a, b \in DOMAIN calls :
        /\ calls[a].op = "registerVolatileTrigger"
        /\ calls[a].reply = "ok"
        /\ calls[a].status = "resolved"
        /\ calls[b].op = "registerVolatileTrigger"
        /\ calls[b].reply = "error"
        /\ calls[b].status = "rejected"

Range(seq) == {seq[i] : i \in DOMAIN seq}

\* The listeners of eventName after this step.
ListenersAfter(eventName) ==
    IF eventName \in DOMAIN listeners' THEN listeners'[eventName] ELSE << >>

\* The socket event of this step invoked the callbacks registered for
\* eventName, one invocation per registration, first registered first, and
\* settled no promise.
Delivered(eventName) ==
    LET registered == ListenersOf(eventName)
        invoked == lastOp'.invoked
    IN  /\ Len(invoked) = Len(registered)
        /\ \A i \in 1..Len(registered) : invoked[i] = registered[i]
        /\ \A cb \in Callbacks :
              Cardinality({i \in DOMAIN invoked : invoked[i] = cb})
                 = Cardinality({i \in DOMAIN registered : registered[i] = cb})
        /\ calls' = calls

\* C9: a socket error (close) invokes every callback registered for
\* 'socketError' ('socketClose') once per registration, in the order of
\* registration (addListener registers at the end), invokes no callback
\* registered only for the other event, and rejects no pending promise.
C9_DispatchInRegistrationOrder ==
    [][ /\ lastOp'.name = "onError" => Delivered("socketError")
        /\ lastOp'.name = "onClose" => Delivered("socketClose")
        /\ lastOp'.name = "addListener"
              => ListenersAfter(lastOp'.eventName)
                    = Append(ListenersOf(lastOp'.eventName), lastOp'.callback)
      ]_vars

\* A socket error reached two different callbacks, in the order they hold
\* in the registry, passed over a callback registered for 'socketClose'
\* alone, and left a joinRoom promise pending.
C9_Witness ==
    /\ lastOp.name = "onError"
    /\ Len(lastOp.invoked) >= 2
    /\ lastOp.invoked[1] # lastOp.invoked[2]
    /\ lastOp.invoked = ListenersOf("socketError")
    /\ \E cb \in Range(ListenersOf("socketClose")) : cb \notin Range(lastOp.invoked)
    /\ \E id \in DOMAIN calls : calls[id].status = "pending"

\* C10: removeListener(eventName, callback) leaves no registration of the
\* callback for eventName, keeps the other callbacks of eventName in their
\* order, leaves the other event name's listeners alone, and changes
\* nothing when the callback was not registered.
C10_RemoveListenerByIdentity ==
    [][ lastOp'.name = "removeListener" =>
        LET e == lastOp'.eventName
            cb == lastOp'.callback
            old == ListenersOf(e)
            new == ListenersAfter(e)
            keep == {i \in DOMAIN old : old[i] # cb}
        IN  /\ \A i \in DOMAIN new : new[i] # cb
            /\ Len(new) = Cardinality(keep)
            /\ \A i \in keep : new[Cardinality({j \in keep : j <= i})] = old[i]
            /\ DOMAIN listeners' = DOMAIN listeners
            /\ \A o \in DOMAIN listeners \ {e} : listeners'[o] = listeners[o]
            /\ keep = DOMAIN old => listeners' = listeners
      ]_vars

\* One of three different callbacks registered for an event was removed:
\* the two others are left.
C10_Witness ==
    /\ lastOp.name = "removeListener"
    /\ Len(lastOp.before) = 3
    /\ lastOp.callback \in Range(lastOp.before)
    /\ Cardinality(Range(lastOp.before)) = 3
    /\ Len(ListenersOf(lastOp.eventName)) = 2
    /\ lastOp.callback \notin Range(ListenersOf(lastOp.eventName))

\* C11: setCredentials leaves the realm and the token it was given (two
\* empty strings and a null realm getter when given null), nothing else
\* changes them, and every HTTP request and every room join issued
\* afterwards carries them as they are when it is issued: the realm in the
\* URL path, the token in the bearer header, the realm in the topic
\* rooms:{realm}:{room}.
C11_CredentialsReadAtUse ==
    [][/\ lastOp'.name = "setCredentials" =>
             LET params == lastOp'.params
             IN  /\ "realm" \in DOMAIN params =>
                       config'.realm = params.realm /\ realm' = params.realm
                 /\ "token" \in DOMAIN params => config'.token = params.token
                 /\ params = << >> =>
                       config'.realm = << >> /\ config'.token = << >> /\ realm' = Null
       /\ config' # config => lastOp'.name = "setCredentials" /\ lastOp' # lastOp
       /\ \A i \in (Len(requests) + 1)..Len(requests') :
             /\ requests'[i].url.path[2] = config'.realm
             /\ requests'[i].authorization = <<"Bearer", config'.token>>
       /\ \A c \in (Len(channels) + 1)..Len(channels') :
             channels'[c].topic = <<"rooms", config'.realm, channels'[c].room>>]_vars

\* A request was issued with realmA and tokenA, a later one with realmB and
\* tokenB, and a room was then joined with realmB in its topic.
C11_Witness ==
    /\ \E i, j \in DOMAIN requests :
          /\ i < j
          /\ requests[i].url.path[2] = <<"realmA">>
          /\ requests[i].authorization = <<"Bearer", <<"tokenA">> >>
          /\ requests[j].url.path[2] = <<"realmB">>
          /\ requests[j].authorization = <<"Bearer", <<"tokenB">> >>
    /\ \E c \in DOMAIN channels : channels[c].topic = <<"rooms", <<"realmB">>, "r1">>
    /\ config.realm = <<"realmB">>

\* The names of the entries of a list of blocks.
Names(blocks) == {blocks[i].name : i \in DOMAIN blocks}

\* C12: in the list getBlocks resolves with, the entry of a name that a
\* native block has is built from the native block's definition, also when
\* the Flow API lists a block of that name.
C12_StaticBlockWins ==
    \A id \in DOMAIN httpCalls :
        (httpCalls[id].op = "getBlocks" /\ httpCalls[id].status = "resolved") =>
            \A i \in DOMAIN httpCalls[id].value :
                httpCalls[id].value[i].name \in staticBlocksName =>
                    httpCalls[id].value[i].source \in Range(staticBlocks)

\* C13: the list getBlocks resolves with has no two entries of one name, and
\* its names are exactly the names of the native blocks and of the blocks the
\* Flow API listed, whatever registerBlock and deleteBlock calls came before.
C13_BlocksUniqueAndComplete ==
    \A id \in DOMAIN httpCalls :
        (httpCalls[id].op = "getBlocks" /\ httpCalls[id].status = "resolved") =>
            LET blocks == httpCalls[id].value
            IN  /\ \A i, j \in DOMAIN blocks : blocks[i].name = blocks[j].name => i = j
                /\ Names(blocks) = staticBlocksName \cup Names(httpCalls[id].response)

\* getBlocks resolved after a registerBlock was accepted, with a response
\* that lists a block under the name of a native block.
C13_Witness ==
    \E id, reg \in DOMAIN httpCalls :
        /\ reg < id
        /\ httpCalls[reg].op = "registerBlock" /\ httpCalls[reg].status = "resolved"
        /\ httpCalls[id].op = "getBlocks" /\ httpCalls[id].status = "resolved"
        /\ Names(httpCalls[id].response) \cap staticBlocksName # {}
        /\ Names(httpCalls[id].response) \ staticBlocksName # {}

\* The requests issued by the HTTP call `id`.
RequestsOf(id) == {i \in DOMAIN requests : requests[i].call = id}

\* C14: a registerBlock call with the name of a native block is rejected with
\* the naming-conflict error and has issued no request; with any other name
\* it has issued exactly one request, a POST of the block to the blocks
\* endpoint.
C14_RegisterBlock ==
    \A id \in DOMAIN httpCalls :
        httpCalls[id].op = "registerBlock" =>
            IF httpCalls[id].args.name \in staticBlocksName
            THEN /\ httpCalls[id].status = "rejected"
                 /\ httpCalls[id].error = "The block's name already exists"
                 /\ RequestsOf(id) = {}
            ELSE /\ Cardinality(RequestsOf(id)) = 1
                 /\ \A i \in RequestsOf(id) :
                       /\ requests[i].method = "post"
                       /\ requests[i].url = [api |-> "flow", search |-> << >>,
                             path |-> << <<"v1">>, config.realm, <<"blocks">> >>]
                       /\ requests[i].data = httpCalls[id].args

\* registerBlock was called with the name of a native block and with a new
\* name, and the second call's POST was answered.
C14_Witness ==
    \E id, other \in DOMAIN httpCalls :
        /\ httpCalls[id].op = "registerBlock"
        /\ httpCalls[id].args.name \in staticBlocksName
        /\ httpCalls[other].op = "registerBlock"
        /\ httpCalls[other].args.name \notin staticBlocksName
        /\ httpCalls[other].status # "pending"

\* C15: a deleteBlock call with the name of a native block is rejected and
\* has issued no request; with any other name it has issued exactly one
\* request, a DELETE of that block's endpoint.
C15_DeleteBlock ==
    \A id \in DOMAIN httpCalls :
        httpCalls[id].op = "deleteBlock" =>
            IF httpCalls[id].args \in staticBlocksName
            THEN /\ httpCalls[id].status = "rejected"
                 /\ httpCalls[id].error = "Cannot delete a native block"
                 /\ RequestsOf(id) = {}
            ELSE /\ Cardinality(RequestsOf(id)) = 1
                 /\ \A i \in RequestsOf(id) :
                       /\ requests[i].method = "delete"
                       /\ requests[i].url = [api |-> "flow", search |-> << >>,
                             path |-> << <<"v1">>, config.realm, <<"blocks">>,
                                         httpCalls[id].args >>]

\* deleteBlock was called with the name of a native block and with another
\* name, and the second call's DELETE was answered.
C15_Witness ==
    \E id, other \in DOMAIN httpCalls :
        /\ httpCalls[id].op = "deleteBlock"
        /\ httpCalls[id].args \in staticBlocksName
        /\ httpCalls[other].op = "deleteBlock"
        /\ httpCalls[other].args \notin staticBlocksName
        /\ httpCalls[other].status # "pending"

GroupOps == {"getDevicesInGroup", "addDeviceToGroup", "removeDeviceFromGroup"}

\* C16: a group method called with an empty group name is rejected with
\* 'Invalid group name' and has issued no request; addDeviceToGroup and
\* removeDeviceFromGroup called with a group name and an empty device ID are
\* rejected with 'Invalid device ID' and have issued no request; with
\* non-empty identifiers the call has issued exactly one request.
C16_GroupIdentifiersChecked ==
    \A id \in DOMAIN httpCalls :
        httpCalls[id].op \in GroupOps =>
            IF httpCalls[id].args.groupName = << >>
            THEN /\ httpCalls[id].status = "rejected"
                 /\ httpCalls[id].error = "Invalid group name"
                 /\ RequestsOf(id) = {}
            ELSE IF httpCalls[id].op # "getDevicesInGroup"
                    /\ httpCalls[id].args.deviceId = << >>
            THEN /\ httpCalls[id].status = "rejected"
                 /\ httpCalls[id].error = "Invalid device ID"
                 /\ RequestsOf(id) = {}
            ELSE Cardinality(RequestsOf(id)) = 1

\* addDeviceToGroup was called with neither a group name nor a device ID.
C16_Witness ==
    \E id \in DOMAIN httpCalls :
        /\ httpCalls[id].op = "addDeviceToGroup"
        /\ httpCalls[id].args.groupName = << >>
        /\ httpCalls[id].args.deviceId = << >>
        /\ httpCalls[id].status = "rejected"

\* decodeURIComponent, for the escapes encodeURIComponent writes; an escape
\* it cannot read ends the result with the symbol URIError.
RECURSIVE decodeURIComponent(_)
decodeURIComponent(str) ==
    IF str = << >> THEN << >>
    ELSE IF Head(str) # "%" THEN <<Head(str)>> \o decodeURIComponent(Tail(str))
    ELSE IF Len(str) < 3 THEN <<"URIError">>
    ELSE LET escape == SubSeq(str, 2, 3)
             rest == decodeURIComponent(SubSeq(str, 4, Len(str)))
         IN  CASE escape = <<"2", "5">> -> <<"%">> \o rest
               [] escape = <<"2", "F">> -> <<"/">> \o rest
               [] escape = <<"3", "F">> -> <<"?">> \o rest
               [] escape = <<"2", "2">> -> <<"\"">> \o rest
               [] OTHER -> <<"URIError">>

\* C17: in the URL a group method requests, the path segment after 'groups'
\* is the group name percent-encoded twice, and decoding it twice gives the
\* group name back.
C17_GroupNameEncodedTwice ==
    \A i \in DOMAIN requests :
        httpCalls[requests[i].call].op \in GroupOps =>
            LET groupName == httpCalls[requests[i].call].args.groupName
                path == requests[i].url.path
            IN  /\ Len(path) >= 5
                /\ path[3] = <<"groups">>
                /\ path[4] = encodeURIComponent(encodeURIComponent(groupName))
                /\ decodeURIComponent(decodeURIComponent(path[4])) = groupName

\* The value of query parameter `name` of a link: a link is a URL, whose
\* query is what follows its first '?'.
QueryParameter(link, name) ==
    LET pairs == SplitAt(After(link, "?"), "&")
        hits == {i \in DOMAIN pairs : Before(pairs[i], "=") = name}
    IN  IF hits = {} THEN Null
        ELSE After(pairs[CHOOSE i \in hits : \A j \in hits : i <= j], "=")

\* C18: a getDevices call whose request was answered successfully is
\* resolved, with nextToken the from_token query parameter of the response's
\* next link, and null when the response has no next link, also when it has
\* no links at all.
C18_NextTokenFromNextLink ==
    \A id \in DOMAIN httpCalls :
        (/\ httpCalls[id].op = "getDevices"
         /\ httpCalls[id].awaiting = 0
         /\ httpCalls[id].error # "response") =>
            LET body == httpCalls[id].response
            IN  /\ httpCalls[id].status = "resolved"
                /\ httpCalls[id].value.nextToken =
                      IF "links" \in DOMAIN body /\ "next" \in DOMAIN body.links
                      THEN QueryParameter(body.links.next, <<"from_token">>)
                      ELSE Null

\* The URLs of the requests issued by the HTTP call `id`, in order.
UrlsOf(id) ==
    LET own == SelectSeq(requests, LAMBDA request : request.call = id)
    IN  [i \in DOMAIN own |-> own[i].url]

DeviceInfoUrl(deviceId) ==
    [api |-> "appEngine", search |-> << >>,
     path |-> << <<"v1">>, config.realm, <<"devices">>, deviceId >>]

InterfaceUrl(interfaceName, major) ==
    [api |-> "realmManagement", search |-> << >>,
     path |-> << <<"v1">>, config.realm, <<"interfaces">>, interfaceName, major >>]

DeviceDataUrl(deviceId, interfaceName) ==
    [api |-> "appEngine",
     search |-> <<"since=", "&", "since_after=", "&", "to=", "&", "limit=1000">>,
     path |-> << <<"v1">>, config.realm, <<"devices">>, deviceId,
                 <<"interfaces">>, interfaceName >>]

\* C19: a getDeviceDataTree call given an interface object issues the raw
\* values request and no other. Given an interface name it requests the
\* device first; once the device is known it is rejected with no further
\* request if the introspection lacks the name, and otherwise requests the
\* interface definition at the introspected major version, and the raw
\* values only after that definition arrived.
C19_DataTreeRequests ==
    \A id \in DOMAIN httpCalls :
        httpCalls[id].op = "getDeviceDataTree" =>
            LET call == httpCalls[id]
                urls == UrlsOf(id)
                device == DeviceInfoUrl(call.args.deviceId)
            IN  IF "interface" \in DOMAIN call.args
                THEN urls = <<DeviceDataUrl(call.args.deviceId, call.args.interface.name)>>
                ELSE IF "device" \notin DOMAIN call.locals
                THEN urls = <<device>>
                ELSE IF call.args.interfaceName \notin DOMAIN call.locals.device.introspection
                THEN /\ urls = <<device>>
                     /\ call.status = "rejected"
                     /\ call.error = "Could not find interface in device introspection"
                ELSE LET interface ==
                            InterfaceUrl(call.args.interfaceName,
                               NumberToString(call.locals.device.introspection[
                                                 call.args.interfaceName].major))
                     IN  IF "iface" \notin DOMAIN call.locals
                         THEN urls = <<device, interface>>
                         ELSE urls = <<device, interface,
                                       DeviceDataUrl(call.args.deviceId,
                                                     call.args.interfaceName)>>

\* One call given an interface name resolved after its three requests, and
\* another was rejected because the device does not declare the interface.
C19_Witness ==
    \E id, other \in DOMAIN httpCalls :
        /\ httpCalls[id].op = "getDeviceDataTree"
        /\ httpCalls[id].status = "resolved"
        /\ Len(UrlsOf(id)) = 3
        /\ httpCalls[other].op = "getDeviceDataTree"
        /\ httpCalls[other].error = "Could not find interface in device introspection"

\* How many entries of `seq` satisfy Test.
Count(seq, Test(_)) == Cardinality({i \in DOMAIN seq : Test(seq[i])})

\* C20: when a 'new_event' message arrives on a room's channel, a payload
\* that decodes makes every handler registered with listenForEvents be
\* invoked once per registration, with the decoded event, and nothing is
\* thrown; a payload that does not decode invokes no handler and, where a
\* handler is registered, throws 'Unrecognised event received'.
C20_NewEventDecodedOrThrown ==
    lastOp.name = "new_event" =>
        LET bindings == channels[lastOp.channel].bindings
            decodedEvent == decodeEvent(lastOp.jsonEvent)
        IN  IF decodedEvent.decoded
            THEN /\ lastOp.thrown = ""
                 /\ \A i \in DOMAIN lastOp.invoked : lastOp.invoked[i].event = decodedEvent
                 /\ \A h \in EventHandlers :
                       Count(lastOp.invoked, LAMBDA call : call.handler = h)
                          = Count(bindings, LAMBDA bound : bound = h)
            ELSE /\ lastOp.invoked = << >>
                 /\ bindings # << >> => lastOp.thrown = "Unrecognised event received"

\* A device event reached a room on which two different handlers listen.
C20_Witness ==
    /\ lastOp.name = "new_event"
    /\ decodeEvent(lastOp.jsonEvent).decoded
    /\ {lastOp.invoked[i].handler : i \in DOMAIN lastOp.invoked} = EventHandlers
    /\ Len(lastOp.invoked) = 2

\* A leaveRoom call for `roomName` was issued after the joinRoom call `id`
\* was resolved: it is a later call, and `id` was no longer pending when it
\* was issued.
LeaveIssuedAfter(id, roomName) ==
    \E l \in DOMAIN calls :
        /\ l > id
        /\ calls[l].op = "leaveRoom"
        /\ calls[l].room = roomName
        /\ id \notin calls[l].overlaps

\* C21: as long as no leaveRoom(r) call is issued after a joinRoom(r) call
\* was resolved with a handle, the registry maps r to that handle, whatever
\* other joinRoom(r) calls and earlier leaveRoom(r) calls are in flight.
C21_ResolvedHandleStaysRegistered ==
    \A id \in DOMAIN calls :
        (/\ calls[id].op = "joinRoom"
         /\ calls[id].status = "resolved"
         /\ ~LeaveIssuedAfter(id, calls[id].room)) =>
            joinedChannels[calls[id].room] = calls[id].value

SocketEvents == {"onError", "onClose"}

\* The event name the socket handler `name` dispatches.
DispatchedBy(name) == IF name = "onError" THEN "socketError" ELSE "socketClose"

\* C22: a socket error or close only invokes the listeners of its event:
\* the stored socket, the registry, the listeners, the channels and the
\* promises are as before and no socket is constructed; a joinRoom issued
\* next for a room in the registry resolves with the cached handle on the
\* sockets and channels there are.
C22_SocketEventsOnlyDispatch ==
    [][ /\ (lastOp'.name \in SocketEvents) =>
              /\ lastOp'.invoked = ListenersOf(DispatchedBy(lastOp'.name))
              /\ phoenixSocket' = phoenixSocket
              /\ joinedChannels' = joinedChannels
              /\ listeners' = listeners
              /\ sockets' = sockets
              /\ channels' = channels
              /\ calls' = calls
        /\ \A r \in Rooms :
              ( /\ lastOp.name \in SocketEvents
                /\ IsCall("joinRoom", r)
                /\ joinedChannels[r] # NoChannel )
              => /\ Returned.status = "resolved"
                 /\ Returned.value = joinedChannels[r]
                 /\ sockets' = sockets
                 /\ channels' = channels
                 /\ phoenixSocket' = phoenixSocket
                 /\ joinedChannels' = joinedChannels
      ]_vars

\* The socket of a joined room reported an error or a close to a listener,
\* and a joinRoom for that room can follow.
C22_Witness ==
    /\ lastOp.name \in SocketEvents
    /\ lastOp.invoked # << >>
    /\ phoenixSocket # NoSocket
    /\ \E r \in Rooms : joinedChannels[r] # NoChannel
    /\ Len(calls) < MaxSocketCalls

\* C23: setCredentials leaves the stored socket, the registry, the
\* listeners, the sockets and channels constructed and the promises as they
\* are. A socket is opened with the realm and token of that moment; once
\* stored it serves every later joinRoom, whatever the credentials are by
\* then, and a room in the registry resolves with its cached handle though
\* the handle's topic names another realm.
C23_SetCredentialsKeepsConnection ==
    [][ /\ (lastOp'.name = "setCredentials") =>
              /\ phoenixSocket' = phoenixSocket
              /\ joinedChannels' = joinedChannels
              /\ listeners' = listeners
              /\ sockets' = sockets
              /\ channels' = channels
              /\ calls' = calls
        /\ (Len(sockets') > Len(sockets)) =>
              /\ phoenixSocket = NoSocket
              /\ Len(sockets') = Len(sockets) + 1
              /\ sockets'[Len(sockets')].realm = config.realm
              /\ sockets'[Len(sockets')].token = config.token
        /\ \A s \in DOMAIN sockets :
              /\ sockets'[s].realm = sockets[s].realm
              /\ sockets'[s].token = sockets[s].token
        /\ \A r \in Rooms :
              (IsCall("joinRoom", r) /\ phoenixSocket # NoSocket) =>
                 /\ sockets' = sockets
                 /\ phoenixSocket' = phoenixSocket
                 /\ joinedChannels' = joinedChannels
                 /\ IF joinedChannels[r] # NoChannel
                    THEN /\ Returned.status = "resolved"
                         /\ Returned.value = joinedChannels[r]
                         /\ channels' = channels
                    ELSE /\ Len(channels') = Len(channels) + 1
                         /\ channels'[Len(channels')].sock = phoenixSocket
      ]_vars

\* After a change of credentials, with the socket opened under the previous
\* ones still stored, a joinRoom was answered with the handle cached under
\* the previous realm.
C23_Witness ==
    /\ lastOp = NoOp
    /\ phoenixSocket # NoSocket
    /\ sockets[phoenixSocket].realm # config.realm
    /\ sockets[phoenixSocket].token # config.token
    /\ LET last == calls[Len(calls)]
       IN  /\ last.op = "joinRoom"
           /\ last.status = "resolved"
           /\ last.chan = NoChannel
           /\ channels[last.value].topic[2] # config.realm

\* The registerBlock calls made so far, and those not yet settled.
RegisterBlockCalls == {id \in DOMAIN httpCalls : httpCalls[id].op = "registerBlock"}

InFlight == {id \in RegisterBlockCalls : httpCalls[id].status = "pending"}

\* A block with a well-formed name other than "new", a source, one of the
\* three types and a parsed JSON value as its schema.
IsValidNewBlock(block) ==
    /\ block.name # << >>
    /\ Head(block.name) \in NameWords
    /\ \A i \in DOMAIN block.name : block.name[i] \in NameRuns
    /\ block.name # <<"new">>
    /\ block.source # << >>
    /\ block.type \in {"producer", "consumer", "producer_consumer"}
    /\ block.schema \in {[object |-> << >>], [number |-> 1]}

\* C24: on the New Block page at most one registerBlock call is in flight
\* and every registerBlock call carries a valid block. A call is made only
\* by a submit of a page whose four fields are valid and which is not
\* creating a block; while the call is in flight the page is creating, so
\* its button is disabled; the pending flag falls only when a call is
\* rejected, and it does fall then; a resolved call pushes /blocks.
C24_OneValidCreationAtATime ==
    [][ /\ Cardinality(InFlight') <= 1
        /\ \A id \in RegisterBlockCalls' : IsValidNewBlock(httpCalls'[id].args)
        /\ (InFlight' # {}) => (Mounted' /\ page'.isCreatingBlock)
        /\ (Len(httpCalls') > Len(httpCalls)) =>
              /\ Mounted
              /\ ~page.isCreatingBlock
              /\ InFlight = {}
              /\ isValidBlockName /\ isValidBlockSource
              /\ isValidBlockType /\ isValidBlockSchema
              /\ page'.isValidated
              /\ RegisterBlockCalls' = RegisterBlockCalls \cup {Len(httpCalls')}
              /\ httpCalls'[Len(httpCalls')].args =
                    [page.block EXCEPT !.schema = JSONParse(Trim(@)).value]
        /\ (page.isCreatingBlock /\ ~page'.isCreatingBlock) =>
              \E id \in InFlight : httpCalls'[id].status = "rejected"
        /\ \A id \in RegisterBlockCalls' :
              (id \notin RegisterBlockCalls \/ id \in InFlight) =>
                 CASE httpCalls'[id].status = "rejected" ->
                         /\ ~page'.isCreatingBlock
                         /\ page'.alert = <<"Couldn't create block: ", httpCalls'[id].error>>
                         /\ page'.history = page.history
                   [] httpCalls'[id].status = "resolved" ->
                         /\ page'.isCreatingBlock
                         /\ page'.history = <<"/blocks">>
                   [] OTHER -> page'.isCreatingBlock
      ]_vars

\* A creation was refused by the Flow API, the page was submitted again and
\* that creation is in flight.
C24_Witness ==
    \E failed \in RegisterBlockCalls, id \in InFlight :
        /\ failed < id
        /\ httpCalls[failed].status = "rejected"
        /\ httpCalls[failed].error = "response"
        /\ page.isCreatingBlock

=============================================================================
